---- MODULE Spec2Model ----
(***************************************************************************)
(* MapReduce word count: the driver's TaskManager (task queues, completion *)
(* tracking, the map->reduce barrier), the partitioner                     *)
(* group_number_indexes and the /get_task and /task_completed endpoints of *)
(* src/src/driver.py.                                                      *)
(*                                                                         *)
(* Python lists are 0-based; TLA+ sequences are 1-based.  Item indexes,    *)
(* task ids and group indexes keep their Python (0-based) values; only the *)
(* positions inside a TLA+ sequence are shifted by one.                    *)
(***************************************************************************)
EXTENDS Integers, Sequences, FiniteSets, TLC

\* ---------------------------------------------------------------- bounds
\* most .txt files of the input directory while the scheduler is exercised
MaxFiles == 2
\* largest configured number of reduce tasks
MaxM == 2
\* most directory entries when only create_tasks is exercised
MaxFilesCreate == 3
\* largest file size in bytes when only create_tasks is exercised
MaxSizeCreate == 2

\* file sizes while the scheduler is exercised: an empty file and a non-empty one
SchedSizes == {0, 1}

Kinds == {"map", "reduce"}
\* concurrent request handlers of the threaded HTTP server
Clients == {1, 2}

VARIABLES
    pc,                      \* driver main: "init" before create_tasks, "serving" after
    input_dir,               \* os.listdir(INPUT_DIR): entries [name, txt, size]
    N, M,                    \* TaskManager.N, TaskManager.M
    file_groups,             \* create_tasks' local file_groups
    map_tasks, reduce_tasks, \* TaskManager's pending queues
    completed_map_tasks,     \* keys of the dict completed_map_tasks
    completed_reduce_tasks,  \* keys of the dict completed_reduce_tasks
    handler,                 \* per client: position of its /get_task handler
    last_call,               \* history: the last step's operation, arguments and response
    dispatched,              \* history: tasks returned by get_next_task, in order
    done_answered,           \* history: some /get_task has answered 204
    file_words,              \* per input file name: its words, as separate_words yields them
    wpc,                     \* per worker: position in run_worker
    wtask,                   \* per worker: the task it holds (run_worker's local task)
    intermediate,            \* INTERMEDIATE_DIR: <<map task id, bucket id>> -> the file's lines
    output,                  \* OUTPUT_DIR: reduce task id -> the file's lines <<word, count>>
    mon,                     \* position of the monitor_tasks thread
    shutdown_posts,          \* history: number of POST /shutdown sent by monitor_tasks
    requester,               \* history: the worker whose request the last step sent (0: none)
    server_stopped,          \* werkzeug's shutdown function has been called
    shutdown_response        \* history: 'status' of the last /shutdown response ("none": no response yet)

\* what the workers, the file system and the monitor thread add to the driver
jobvars == <<file_words, wpc, wtask, intermediate, output, mon, shutdown_posts, requester,
             server_stopped, shutdown_response>>

vars == <<pc, input_dir, N, M, file_groups, map_tasks, reduce_tasks,
          completed_map_tasks, completed_reduce_tasks, handler,
          last_call, dispatched, done_answered,
          file_words, wpc, wtask, intermediate, output, mon, shutdown_posts, requester,
          server_stopped, shutdown_response>>

sched == <<N, M, map_tasks, reduce_tasks, completed_map_tasks, completed_reduce_tasks>>

\* ---------------------------------------------------------------- helpers
None == [type |-> "none"]

Min(a, b) == IF a <= b THEN a ELSE b

\* what a step leaves in last_call: the operation, the task it was about
\* (the task returned, or the kind and id reported), the HTTP status (0: no
\* response sent by this step) and whether the step reported a completion
\* that was recorded already
Call(op, task, status, repeat) ==
    [op |-> op, task |-> task, status |-> status, repeat |-> repeat]

\* ---------------------------------------------------------------- partitioner
\* sorted(enumerate(nums), key=lambda x: x[1], reverse=True): the item indexes
\* by descending weight; Python's sort is stable, also with reverse=True, so
\* equal weights keep their original order
RECURSIVE SortedIndexes(_, _)
SortedIndexes(nums, remaining) ==
    IF remaining = {} THEN <<>>
    ELSE LET first == CHOOSE i \in remaining :
                        \A j \in remaining :
                            \/ nums[i + 1] > nums[j + 1]
                            \/ nums[i + 1] = nums[j + 1] /\ i <= j
         IN <<first>> \o SortedIndexes(nums, remaining \ {first})

\* min(group_sums)
MinOf(group_sums) ==
    CHOOSE m \in {group_sums[g] : g \in 1..Len(group_sums)} :
        \A g \in 1..Len(group_sums) : m <= group_sums[g]

\* the last position holding the minimum
MinGroupIndex_last(group_sums) ==
    CHOOSE g \in 1..Len(group_sums) :
        /\ group_sums[g] = MinOf(group_sums)
        /\ \A h \in (g + 1)..Len(group_sums) : group_sums[h] # MinOf(group_sums)

\* group_sums.index(min(group_sums)): the first position holding the minimum
\* (as a position of the TLA+ sequence, i.e. Python's index + 1)
MinGroupIndex(group_sums) ==
    CHOOSE g \in 1..Len(group_sums) :
        /\ group_sums[g] = MinOf(group_sums)
        /\ \A h \in 1..(g - 1) : group_sums[h] # MinOf(group_sums)

\* the loop with an "if num:" around its body: items of weight 0 are placed
\* in no group
RECURSIVE Distribute_skip_zero(_, _, _, _)
Distribute_skip_zero(indexed, nums, groups, group_sums) ==
    IF indexed = <<>> THEN groups
    ELSE LET index == Head(indexed)
             num == nums[index + 1]
             min_group_index == MinGroupIndex(group_sums)
         IN IF num = 0
            THEN Distribute_skip_zero(Tail(indexed), nums, groups, group_sums)
            ELSE Distribute_skip_zero(Tail(indexed), nums,
                       [groups EXCEPT ![min_group_index] = Append(@, index)],
                       [group_sums EXCEPT ![min_group_index] = @ + num])

\* the loop of group_number_indexes over indexed_nums
RECURSIVE Distribute(_, _, _, _)
Distribute(indexed, nums, groups, group_sums) ==
    IF indexed = <<>> THEN groups
    ELSE LET index == Head(indexed)
             num == nums[index + 1]
             min_group_index == MinGroupIndex(group_sums)
         IN Distribute(Tail(indexed), nums,
                       [groups EXCEPT ![min_group_index] = Append(@, index)],
                       [group_sums EXCEPT ![min_group_index] = @ + num])

group_number_indexes(nums, k) ==
    Distribute(SortedIndexes(nums, 0..(Len(nums) - 1)), nums,
               [g \in 1..k |-> <<>>], [g \in 1..k |-> 0])

\* ---------------------------------------------------------------- create_tasks
\* [f for f in os.listdir(INPUT_DIR) if f.endswith('.txt')]: the names
TxtNames(dir) ==
    LET txt == SelectSeq(dir, LAMBDA e : e.txt)
    IN [i \in 1..Len(txt) |-> txt[i].name]

\* [os.path.getsize(...) for f in os.listdir(INPUT_DIR) if f.endswith('.txt')]
TxtSizes(dir) ==
    LET txt == SelectSeq(dir, LAMBDA e : e.txt)
    IN [i \in 1..Len(txt) |-> txt[i].size]

\* the map tasks create_tasks appends: one per non-empty group, task_id the
\* group's index
MapTasksOf(groups, input_files) ==
    LET all == [g \in 1..Len(groups) |->
                   [type |-> "map", task_id |-> g - 1,
                    files |-> [p \in 1..Len(groups[g]) |-> input_files[groups[g][p] + 1]]]]
    IN SelectSeq(all, LAMBDA t : t.files # <<>>)

\* the reduce tasks create_tasks appends
ReduceTasksOf(m) == [i \in 1..m |-> [type |-> "reduce", task_id |-> i - 1]]

CreateTasks ==
    /\ pc = "init"
    /\ LET input_files == TxtNames(input_dir)
           n == Min(N, Len(input_files))
           groups == group_number_indexes(TxtSizes(input_dir), n)
       IN /\ N' = n
          /\ file_groups' = groups
          /\ map_tasks' = MapTasksOf(groups, input_files)
    /\ reduce_tasks' = ReduceTasksOf(M)
    /\ pc' = "serving"
    /\ last_call' = Call("create_tasks", None, 0, FALSE)
    /\ UNCHANGED <<input_dir, M, completed_map_tasks, completed_reduce_tasks,
                   handler, dispatched, done_answered>>
    /\ UNCHANGED jobvars

\* ---------------------------------------------------------------- TaskManager
\* get_next_task reading the front map task without popping it
get_next_task_peek(mt, rt, cm, n) ==
    IF mt # <<>>
    THEN [task |-> Head(mt), map_tasks |-> mt, reduce_tasks |-> rt]
    ELSE IF cm # {} /\ Cardinality(cm) = n /\ rt # <<>>
    THEN [task |-> Head(rt), map_tasks |-> mt, reduce_tasks |-> Tail(rt)]
    ELSE [task |-> None, map_tasks |-> mt, reduce_tasks |-> rt]

\* get_next_task putting the map task it hands out back at the end of the queue
get_next_task_requeue(mt, rt, cm, n) ==
    IF mt # <<>>
    THEN [task |-> Head(mt), map_tasks |-> Append(Tail(mt), Head(mt)), reduce_tasks |-> rt]
    ELSE IF cm # {} /\ Cardinality(cm) = n /\ rt # <<>>
    THEN [task |-> Head(rt), map_tasks |-> mt, reduce_tasks |-> Tail(rt)]
    ELSE [task |-> None, map_tasks |-> mt, reduce_tasks |-> rt]

\* get_next_task reading the front reduce task without popping it
get_next_task_reduce_peek(mt, rt, cm, n) ==
    IF mt # <<>>
    THEN [task |-> Head(mt), map_tasks |-> Tail(mt), reduce_tasks |-> rt]
    ELSE IF cm # {} /\ Cardinality(cm) = n /\ rt # <<>>
    THEN [task |-> Head(rt), map_tasks |-> mt, reduce_tasks |-> rt]
    ELSE [task |-> None, map_tasks |-> mt, reduce_tasks |-> rt]

\* get_next_task without the len(completed_map_tasks) == N test
get_next_task_ungated(mt, rt, cm, n) ==
    IF mt # <<>>
    THEN [task |-> Head(mt), map_tasks |-> Tail(mt), reduce_tasks |-> rt]
    ELSE IF cm # {} /\ rt # <<>>
    THEN [task |-> Head(rt), map_tasks |-> mt, reduce_tasks |-> Tail(rt)]
    ELSE [task |-> None, map_tasks |-> mt, reduce_tasks |-> rt]

\* get_next_task with pop() for pop(0): the queues' last task first
get_next_task_lifo(mt, rt, cm, n) ==
    IF mt # <<>>
    THEN [task |-> mt[Len(mt)], map_tasks |-> SubSeq(mt, 1, Len(mt) - 1), reduce_tasks |-> rt]
    ELSE IF cm # {} /\ Cardinality(cm) = n /\ rt # <<>>
    THEN [task |-> rt[Len(rt)], map_tasks |-> mt, reduce_tasks |-> SubSeq(rt, 1, Len(rt) - 1)]
    ELSE [task |-> None, map_tasks |-> mt, reduce_tasks |-> rt]

\* get_next_task, under the lock: the task returned (None for Python's None)
\* and the queues it leaves.  A dict is truthy iff it is non-empty.
get_next_task(mt, rt, cm, n) ==
    IF mt # <<>>
    THEN [task |-> Head(mt), map_tasks |-> Tail(mt), reduce_tasks |-> rt]
    ELSE IF cm # {} /\ Cardinality(cm) = n /\ rt # <<>>
    THEN [task |-> Head(rt), map_tasks |-> mt, reduce_tasks |-> Tail(rt)]
    ELSE [task |-> None, map_tasks |-> mt, reduce_tasks |-> rt]

\* complete_task with the nested tests flattened: a report of a map id already
\* recorded falls through to the reduce branch
complete_task_flat(cm, cr, task_type, task_id) ==
    IF task_type = "map" /\ task_id \notin cm
    THEN <<cm \cup {task_id}, cr>>
    ELSE <<cm, IF task_id \notin cr THEN cr \cup {task_id} ELSE cr>>

\* complete_task, under the lock: the two completed dicts' key sets after it
complete_task(cm, cr, task_type, task_id) ==
    IF task_type = "map"
    THEN <<IF task_id \notin cm THEN cm \cup {task_id} ELSE cm, cr>>
    ELSE IF task_type = "reduce"
    THEN <<cm, IF task_id \notin cr THEN cr \cup {task_id} ELSE cr>>
    ELSE <<cm, cr>>

is_all_completed(cm, cr, n, m) == Cardinality(cm) = n /\ Cardinality(cr) = m

IsAllCompleted == is_all_completed(completed_map_tasks, completed_reduce_tasks, N, M)

\* ---------------------------------------------------------------- endpoints
\* the status without the truth test of completed_map_tasks
get_task_status_len_only(cm, n) == IF Cardinality(cm) < n THEN 202 ELSE 204

\* the status of a handler without the 202 branch
get_task_status_no_wait(cm, n) == 204

\* the status /get_task answers once get_next_task returned None
get_task_status(cm, n) == IF cm # {} /\ Cardinality(cm) < n THEN 202 ELSE 204

\* /get_task, first part: get_next_task under the lock.  With a task the
\* handler answers 200 at once (it reads no more shared state); with None it
\* still has to read completed_map_tasks, outside the lock.
GetTask(c) ==
    /\ pc = "serving"
    /\ handler[c] = "idle"
    /\ LET r == get_next_task(map_tasks, reduce_tasks, completed_map_tasks, N)
       IN /\ map_tasks' = r.map_tasks
          /\ reduce_tasks' = r.reduce_tasks
          /\ IF r.task # None
             THEN /\ last_call' = Call("get_task", r.task, 200, FALSE)
                  /\ dispatched' = Append(dispatched, r.task)
                  /\ handler' = handler
             ELSE /\ last_call' = Call("get_task", None, 0, FALSE)
                  /\ handler' = [handler EXCEPT ![c] = "none"]
                  /\ dispatched' = dispatched
    /\ UNCHANGED <<pc, input_dir, N, M, file_groups, completed_map_tasks,
                   completed_reduce_tasks, done_answered>>

\* /get_task, second part (lines 199-201): the handler reads
\* completed_map_tasks twice, its truth value and then its length; the dict
\* only grows, so both reads agree with one read taken at the second.
GetTaskRespond(c) ==
    /\ handler[c] = "none"
    /\ LET status == get_task_status(completed_map_tasks, N)
       IN /\ last_call' = Call("get_task", None, status, FALSE)
          /\ done_answered' = (done_answered \/ status = 204)
    /\ handler' = [handler EXCEPT ![c] = "idle"]
    /\ UNCHANGED <<pc, input_dir, N, M, file_groups, map_tasks, reduce_tasks,
                   completed_map_tasks, completed_reduce_tasks, dispatched>>

\* /task_completed: any client may report any kind and any id
TaskCompleted(task_type, task_id) ==
    /\ pc = "serving"
    /\ LET done == complete_task(completed_map_tasks, completed_reduce_tasks,
                                 task_type, task_id)
       IN /\ completed_map_tasks' = done[1]
          /\ completed_reduce_tasks' = done[2]
    /\ last_call' = Call("task_completed", [type |-> task_type, task_id |-> task_id], 200,
                         task_id \in (IF task_type = "map" THEN completed_map_tasks
                                      ELSE completed_reduce_tasks))
    /\ UNCHANGED <<pc, input_dir, N, M, file_groups, map_tasks, reduce_tasks,
                   handler, dispatched, done_answered>>

\* ---------------------------------------------------------------- step kinds
\* a step in which get_next_task returned a task (only GetTask extends dispatched)
TaskReturned == Len(dispatched') = Len(dispatched) + 1

\* the task such a step returned
Returned == dispatched'[Len(dispatched')]

\* a step in which get_next_task returned None
NoneReturned == \E c \in Clients : handler[c] = "idle" /\ handler'[c] = "none"

\* a step in which a /get_task handler that got None sent its answer
Answered == \E c \in Clients : handler[c] = "none" /\ handler'[c] = "idle"

MapsOf(tasks) == SelectSeq(tasks, LAMBDA t : t.type = "map")
ReducesOf(tasks) == SelectSeq(tasks, LAMBDA t : t.type = "reduce")

\* ---------------------------------------------------------------- claims
\* C1: barrier.  Whatever get_next_task and complete_task calls came before,
\* a step of get_next_task that returns a reduce task starts in a state where
\* len(completed_map_tasks) = N and map_tasks is empty.
C1_Barrier ==
    [][(TaskReturned /\ Returned.type = "reduce")
          => (Cardinality(completed_map_tasks) = N /\ map_tasks = <<>>)]_vars

\* C1 witness: a reduce task was returned in a job of two map tasks, with a
\* completion report for an id that no task has recorded as well
C1_Witness ==
    /\ last_call.op = "get_task" /\ last_call.task.type = "reduce"
    /\ Len(MapsOf(dispatched)) = 2
    /\ completed_map_tasks = {0, 1}

\* C2 (as claimed): once some /get_task has answered 204, no later
\* get_next_task returns a task.
C2_DoneIsFinal == [][done_answered => ~TaskReturned]_vars

\* C3 (as claimed): with no input file (N = 0 after create_tasks), M >= 1 and
\* no completion reported, a get_next_task call returns the front reduce task.
C3_ZeroInputsDispatchReduce ==
    [][(pc = "serving" /\ N = 0 /\ completed_map_tasks = {} /\ reduce_tasks # <<>>
          /\ (TaskReturned \/ NoneReturned))
          => (TaskReturned /\ Returned = Head(reduce_tasks))]_vars

\* C4 (as claimed): whatever completion reports are made, ids that no task
\* has included, len(completed_map_tasks) <= N and
\* len(completed_reduce_tasks) <= M.
C4_CompletedWithinTargets ==
    pc = "serving" => /\ Cardinality(completed_map_tasks) <= N
                      /\ Cardinality(completed_reduce_tasks) <= M

\* C5 (as claimed): once every map id 0..N-1 and every reduce id 0..M-1 is
\* recorded complete, is_all_completed() is true, and it stays true whatever
\* call follows.
C5_TerminationStable ==
    [][pc = "serving" =>
          /\ ((0..(N - 1)) \subseteq completed_map_tasks
                 /\ (0..(M - 1)) \subseteq completed_reduce_tasks) => IsAllCompleted
          /\ IsAllCompleted => IsAllCompleted']_vars

\* C6: complete_task is idempotent.  A report of a kind and id that is
\* recorded already (by an earlier report of the same kind and id, whatever
\* other calls came in between) leaves the whole TaskManager state as it was,
\* the sizes of both completed dicts included.
C6_CompleteTaskIdempotent ==
    [][(last_call'.op = "task_completed" /\ last_call'.repeat) => UNCHANGED sched]_vars

\* C6 witness: map id 0 was reported a second time, after other reports
C6_Witness ==
    /\ last_call.op = "task_completed" /\ last_call.repeat
    /\ last_call.task = [type |-> "map", task_id |-> 0]
    /\ completed_map_tasks = {0, 1}
    /\ completed_reduce_tasks = {}

\* the number of places (group, position) of groups that hold index
Places(groups, index) ==
    Cardinality({gp \in {<<g, p>> : g \in 1..Len(groups), p \in 1..MaxFilesCreate + 1} :
                    gp[2] <= Len(groups[gp[1]]) /\ groups[gp[1]][gp[2]] = index})

\* the number of places (task, position) of the tasks' payloads that hold name
PayloadPlaces(tasks, name) ==
    Cardinality({tp \in {<<t, p>> : t \in 1..Len(tasks), p \in 1..MaxFilesCreate + 1} :
                    tp[2] <= Len(tasks[tp[1]].files) /\ tasks[tp[1]].files[tp[2]] = name})

\* C7: partition completeness.  After create_tasks, with n the number of
\* .txt files: group_number_indexes returned k = min(N requested, n) groups
\* (none for the empty list), every item index 0..n-1 is at exactly one place
\* of the groups and nothing else is, and every .txt file's name is at exactly
\* one place of the map tasks' payloads, which hold no other name.
C7_PartitionComplete ==
    pc = "serving" =>
        LET n == Len(TxtSizes(input_dir))
        IN /\ Len(file_groups) = N
           /\ n = 0 => file_groups = <<>>
           /\ \A index \in 0..(n - 1) : Places(file_groups, index) = 1
           /\ \A g \in 1..Len(file_groups) : \A p \in 1..Len(file_groups[g]) :
                 file_groups[g][p] \in 0..(n - 1)
           /\ \A i \in 1..Len(input_dir) :
                 PayloadPlaces(map_tasks, input_dir[i].name) =
                     (IF input_dir[i].txt THEN 1 ELSE 0)
           /\ \A t \in 1..Len(map_tasks) : \A p \in 1..Len(map_tasks[t].files) :
                 \E i \in 1..Len(input_dir) : input_dir[i].name = map_tasks[t].files[p]

\* C7 witness: three .txt files, one of them empty, and a file of another
\* extension before them, partitioned into two groups
C7_Witness ==
    /\ pc = "serving"
    /\ Len(input_dir) = MaxFilesCreate
    /\ ~input_dir[1].txt
    /\ \E i \in 1..Len(input_dir) : input_dir[i].txt /\ input_dir[i].size = 0
    /\ Len(file_groups) = 2
    /\ \E g \in 1..2 : Len(file_groups[g]) = 2

\* C8 (as claimed): create_tasks leaves N = min(N requested, number of .txt
\* files), exactly N map tasks, each with a non-empty payload, and exactly M
\* reduce tasks.
C8_TaskCountsMatch ==
    [][(pc = "init" /\ pc' = "serving") =>
          /\ N' = Min(N, Len(TxtNames(input_dir)))
          /\ Len(map_tasks') = N'
          /\ \A t \in 1..Len(map_tasks') : map_tasks'[t].files # <<>>
          /\ Len(reduce_tasks') = M']_vars

\* C9: first in, first out, with contiguous ids.  In every reachable state the
\* i-th map task that get_next_task has returned has id i-1 and the j-th
\* reduce task it has returned has id j-1, whatever reports and other fetches
\* were interleaved.
C9_FifoDispatch ==
    /\ \A i \in 1..Len(MapsOf(dispatched)) : MapsOf(dispatched)[i].task_id = i - 1
    /\ \A j \in 1..Len(ReducesOf(dispatched)) : ReducesOf(dispatched)[j].task_id = j - 1

\* C9 witness: two map tasks and two reduce tasks were returned, and a
\* fetch was answered 204 in between
C9_Witness ==
    /\ Len(MapsOf(dispatched)) = 2
    /\ Len(ReducesOf(dispatched)) = 2
    /\ done_answered

C11_WaitThenReduce ==
    [][(pc = "serving" /\ map_tasks = <<>>) =>
          /\ (0 < Cardinality(completed_map_tasks) /\ Cardinality(completed_map_tasks) < N)
                => /\ ~TaskReturned
                   /\ Answered => last_call'.status = 202
          /\ (Cardinality(completed_map_tasks) = N /\ N >= 1 /\ reduce_tasks # <<>>
                 /\ (TaskReturned \/ NoneReturned))
                => (TaskReturned /\ Returned = Head(reduce_tasks))]_vars

\* C11 witness: both map tasks were fetched, one is reported complete, and a
\* fetch was just answered 202
C11_Witness ==
    /\ N = 2 /\ map_tasks = <<>> /\ Len(MapsOf(dispatched)) = 2
    /\ Cardinality(completed_map_tasks) = 1
    /\ last_call = Call("get_task", None, 202, FALSE)

\* C12 (as claimed): a /get_task handler never answers 204 from a state in
\* which N >= 1, len(completed_map_tasks) = N and a reduce task is pending
\* (the state the answer is decided from asks for that reduce task).
C12_NoDoneWhenReduceReady ==
    [][(Answered /\ last_call'.status = 204)
          => ~(N >= 1 /\ Cardinality(completed_map_tasks) = N /\ reduce_tasks # <<>>)]_vars

\* the group sizes of a partition
GroupSizes(groups) == {Len(groups[g]) : g \in 1..Len(groups)}

\* C13 (as claimed): when all .txt files have the same size, the numbers of
\* items of any two groups returned by group_number_indexes differ by at
\* most 1.
C13_UniformBalance ==
    (pc = "serving" /\ \A i, j \in 1..Len(TxtSizes(input_dir)) :
                          TxtSizes(input_dir)[i] = TxtSizes(input_dir)[j])
        => \A a, b \in GroupSizes(file_groups) : a - b <= 1

\* ---------------------------------------------------------------- specification
\* no worker has made a request, both directories are freshly created and
\* the monitor thread has not looked yet
NoJob ==
    /\ wpc = [w \in Clients |-> "fetch"]
    /\ wtask = [w \in Clients |-> None]
    /\ intermediate = <<>>
    /\ output = <<>>
    /\ mon = "check_map"
    /\ shutdown_posts = 0
    /\ requester = 0
    /\ server_stopped = FALSE
    /\ shutdown_response = "none"

\* the state after TaskManager(config): the directory listing and the
\* configured counts are the inputs.  num_map_tasks and num_reduce_tasks are
\* at least 1: with num_map_tasks = 0 and a .txt file present, min() of the
\* empty group_sums raises in create_tasks and the driver never serves.
InitWith(maxFiles, entries) ==
    /\ pc = "init"
    /\ \E l \in 0..maxFiles : \E es \in [1..l -> entries] :
          input_dir = [i \in 1..l |-> [name |-> i, txt |-> es[i].txt, size |-> es[i].size]]
    /\ N \in 1..maxFiles
    /\ M \in 1..MaxM
    /\ file_groups = <<>>
    /\ map_tasks = <<>>
    /\ reduce_tasks = <<>>
    /\ completed_map_tasks = {}
    /\ completed_reduce_tasks = {}
    /\ handler = [c \in Clients |-> "idle"]
    /\ last_call = Call("init", None, 0, FALSE)
    /\ dispatched = <<>>
    /\ done_answered = FALSE
    /\ file_words = <<>>
    /\ NoJob

\* directory entries: .txt files of every size, and a file of another extension
InitCreate ==
    InitWith(MaxFilesCreate,
             [txt : {TRUE}, size : 0..MaxSizeCreate] \cup [txt : {FALSE}, size : {1}])

SpecCreate == InitCreate /\ [][CreateTasks]_vars

\* ids a client may put in a completion report: the ids 0..N-1 (0..M-1) and
\* one more, which no task has
ReportIds(task_type) == IF task_type = "map" THEN 0..N ELSE 0..M

Init == InitWith(MaxFiles, [txt : {TRUE}, size : SchedSizes])

Next ==
    \/ CreateTasks
    \/ \E c \in Clients : GetTask(c) /\ UNCHANGED jobvars
    \/ \E c \in Clients : GetTaskRespond(c) /\ UNCHANGED jobvars
    \/ \E t \in Kinds : \E i \in ReportIds(t) : TaskCompleted(t, i) /\ UNCHANGED jobvars

Spec == Init /\ [][Next]_vars

\* ================================================================ the job
\* The driver with the repository's own workers (src/src/worker.py), the two
\* directories they share and the monitor thread.  The workers are the
\* Clients; a worker sends the requests run_worker sends and no other.

\* words of the input files, in sorted() order
WordList == <<"a", "b">>

\* ord(word[0].lower())
FirstOrd(word) == CASE word = "a" -> 97 [] word = "b" -> 98

\* what an input file can hold: nothing (an empty file, size 0) or one word
\* (size 1)
JobContents == {<<>>, <<"a">>, <<"b">>}

\* ---------------------------------------------------------------- task bodies
\* map_task's bucket_id
bucket_id(word, m) == FirstOrd(word) % m

\* the words of the files of a map task, in the order map_task reads them
RECURSIVE TaskWords(_, _)
TaskWords(files, words) ==
    IF files = <<>> THEN <<>>
    ELSE words[Head(files)] \o TaskWords(Tail(files), words)

\* map_task's writes: each word is appended to mr-<task_id>-<bucket_id>,
\* which open(..., 'a') creates when it is missing
RECURSIVE map_task(_, _, _, _)
map_task(fs, task_id, ws, m) ==
    IF ws = <<>> THEN fs
    ELSE LET word == Head(ws)
             intermediate_file == <<task_id, bucket_id(word, m)>>
             written == IF intermediate_file \in DOMAIN fs
                        THEN [fs EXCEPT ![intermediate_file] = Append(@, word)]
                        ELSE fs @@ (intermediate_file :> <<word>>)
         IN map_task(written, task_id, Tail(ws), m)

\* get_reduce_task_filenames with the regex's first number for its second:
\* files are grouped by map task id
get_reduce_task_filenames_by_map(fs) ==
    [r \in {f[1] : f \in DOMAIN fs} |-> {f \in DOMAIN fs : f[1] = r}]

\* get_reduce_task_filenames: reduce task id -> the files mr-*-<id>; an id
\* with no file is no key of the dict
get_reduce_task_filenames(fs) ==
    [r \in {f[2] : f \in DOMAIN fs} |-> {f \in DOMAIN fs : f[2] = r}]

\* occurrences of word in the lines of the files
RECURSIVE CountIn(_, _, _)
CountIn(files, fs, word) ==
    IF files = {} THEN 0
    ELSE LET f == CHOOSE x \in files : TRUE
         IN Len(SelectSeq(fs[f], LAMBDA x : x = word)) + CountIn(files \ {f}, fs, word)

\* the lines reduce_task writes: sorted(word_count.items())
reduce_output(files, fs) ==
    LET seen == SelectSeq(WordList, LAMBDA word : CountIn(files, fs, word) > 0)
    IN [i \in 1..Len(seen) |-> <<seen[i], CountIn(files, fs, seen[i])>>]

\* reduce_tasks_dict[reduce_task_id] raises KeyError for an id that is no key
reduce_raises(fs, reduce_task_id) ==
    reduce_task_id \notin DOMAIN get_reduce_task_filenames(fs)

\* the completion record with the id of the task after the one processed
completion_info_next(task) == [type |-> task.type, task_id |-> task.task_id + 1]

\* what map_task and reduce_task return: the kind and the id of their task
completion_info(task) == [type |-> task.type, task_id |-> task.task_id]

\* ---------------------------------------------------------------- run_worker
\* the position after the sleep that follows a RequestException: break
after_failure_retry == "fetch"
after_failure == "exited"

WorkerSet(w, position, task) ==
    /\ wpc' = [wpc EXCEPT ![w] = position]
    /\ wtask' = [wtask EXCEPT ![w] = task]

\* requests.get(/get_task), served up to get_next_task: with a task the
\* worker goes on to process it, with None its handler has yet to answer
WorkerFetch(w) ==
    /\ wpc[w] = "fetch"
    /\ GetTask(w)
    /\ IF TaskReturned
       THEN WorkerSet(w, "exec", Returned)
       ELSE WorkerSet(w, "answer", None)
    /\ requester' = w
    /\ UNCHANGED <<file_words, intermediate, output, mon, shutdown_posts,
                   server_stopped, shutdown_response>>

\* the handler answers 202 or 204.  202 carries a JSON body: the worker
\* sleeps and asks again.  A 204 response has no body, so response.json()
\* raises before the status is looked at: a requests.JSONDecodeError (a
\* RequestException: caught, sleep, break) or, with an older requests, a
\* ValueError that ends the process.
WorkerAnswer(w) ==
    /\ wpc[w] = "answer"
    /\ GetTaskRespond(w)
    /\ \/ last_call'.status = 202 /\ WorkerSet(w, "wait", None)
       \/ last_call'.status = 204 /\ WorkerSet(w, "failed", None)
       \/ last_call'.status = 204 /\ WorkerSet(w, "exited", None)
    /\ requester' = 0
    /\ UNCHANGED <<file_words, intermediate, output, mon, shutdown_posts,
                   server_stopped, shutdown_response>>

\* time.sleep(RETRY_DELAY) after a 202 ends
WorkerWake(w) ==
    /\ wpc[w] = "wait"
    /\ WorkerSet(w, "fetch", None)
    /\ last_call' = Call("sleep", None, 0, FALSE)
    /\ requester' = 0
    /\ UNCHANGED <<pc, input_dir, N, M, file_groups, map_tasks, reduce_tasks,
                   completed_map_tasks, completed_reduce_tasks, handler,
                   dispatched, done_answered,
                   file_words, intermediate, output, mon, shutdown_posts,
                   server_stopped, shutdown_response>>

\* process_task: the whole task body.  A reduce task whose id is no key of
\* reduce_tasks_dict raises KeyError, which nothing catches: the process ends.
WorkerProcess(w) ==
    /\ wpc[w] = "exec"
    /\ IF wtask[w].type = "map"
       THEN /\ intermediate' = map_task(intermediate, wtask[w].task_id,
                                        TaskWords(wtask[w].files, file_words), M)
            /\ output' = output
            /\ WorkerSet(w, "report", wtask[w])
       ELSE IF reduce_raises(intermediate, wtask[w].task_id)
       THEN /\ UNCHANGED <<intermediate, output>>
            /\ WorkerSet(w, "exited", wtask[w])
       ELSE /\ output' = [r \in DOMAIN output \cup {wtask[w].task_id} |->
                            IF r = wtask[w].task_id
                            THEN reduce_output(
                                     get_reduce_task_filenames(intermediate)[r],
                                     intermediate)
                            ELSE output[r]]
            /\ intermediate' = intermediate
            /\ WorkerSet(w, "report", wtask[w])
    /\ last_call' = Call("process_task", wtask[w], 0, FALSE)
    /\ requester' = 0
    /\ UNCHANGED <<pc, input_dir, N, M, file_groups, map_tasks, reduce_tasks,
                   completed_map_tasks, completed_reduce_tasks, handler,
                   dispatched, done_answered, file_words, mon, shutdown_posts,
                   server_stopped, shutdown_response>>

\* the task body fails (an input file cannot be read, the process is
\* killed): the process ends holding its task.  What a failed map task had
\* appended before is left out: nothing reads its files afterwards.
WorkerBodyFails(w) ==
    /\ wpc[w] = "exec"
    /\ WorkerSet(w, "exited", wtask[w])
    /\ last_call' = Call("task_failed", wtask[w], 0, FALSE)
    /\ requester' = 0
    /\ UNCHANGED <<pc, input_dir, N, M, file_groups, map_tasks, reduce_tasks,
                   completed_map_tasks, completed_reduce_tasks, handler,
                   dispatched, done_answered,
                   file_words, intermediate, output, mon, shutdown_posts,
                   server_stopped, shutdown_response>>

\* requests.post(/task_completed, json=completion_info)
WorkerReport(w) ==
    /\ wpc[w] = "report"
    /\ TaskCompleted(completion_info(wtask[w]).type, completion_info(wtask[w]).task_id)
    /\ WorkerSet(w, "fetch", None)
    /\ requester' = w
    /\ UNCHANGED <<file_words, intermediate, output, mon, shutdown_posts,
                   server_stopped, shutdown_response>>

\* a request does not reach the driver: requests raises a RequestException,
\* the worker sleeps once (line 196)
WorkerRequestFails(w) ==
    /\ wpc[w] \in {"fetch", "report"}
    /\ pc = "serving"
    /\ WorkerSet(w, "failed", wtask[w])
    /\ last_call' = Call("request_failed", wtask[w], 0, FALSE)
    /\ requester' = w
    /\ UNCHANGED <<pc, input_dir, N, M, file_groups, map_tasks, reduce_tasks,
                   completed_map_tasks, completed_reduce_tasks, handler,
                   dispatched, done_answered,
                   file_words, intermediate, output, mon, shutdown_posts,
                   server_stopped, shutdown_response>>

\* the sleep after a RequestException ends
WorkerGivesUp(w) ==
    /\ wpc[w] = "failed"
    /\ WorkerSet(w, after_failure, wtask[w])
    /\ last_call' = Call("sleep", None, 0, FALSE)
    /\ requester' = 0
    /\ UNCHANGED <<pc, input_dir, N, M, file_groups, map_tasks, reduce_tasks,
                   completed_map_tasks, completed_reduce_tasks, handler,
                   dispatched, done_answered,
                   file_words, intermediate, output, mon, shutdown_posts,
                   server_stopped, shutdown_response>>

\* ---------------------------------------------------------------- monitor_tasks
\* the position after requests.post(/shutdown): break
after_shutdown_post_loop == "check_map"
after_shutdown_post == "done"

\* one evaluation of is_all_completed() by the monitor thread, which takes no
\* lock: it reads len(completed_map_tasks), and only if that equals N it
\* reads len(completed_reduce_tasks).  A pass that finds the first test false
\* changes nothing.
MonitorStep(position) ==
    /\ mon' = position
    /\ last_call' = Call("monitor_tasks", None, 0, FALSE)
    /\ requester' = 0
    /\ UNCHANGED <<pc, input_dir, N, M, file_groups, map_tasks, reduce_tasks,
                   completed_map_tasks, completed_reduce_tasks, handler,
                   dispatched, done_answered,
                   file_words, wpc, wtask, intermediate, output,
                   server_stopped, shutdown_response>>

MonitorReadsMap ==
    /\ pc = "serving"
    /\ mon = "check_map"
    /\ Cardinality(completed_map_tasks) = N
    /\ MonitorStep("check_reduce")
    /\ shutdown_posts' = shutdown_posts

MonitorReadsReduce ==
    /\ mon = "check_reduce"
    /\ MonitorStep(IF Cardinality(completed_reduce_tasks) = M THEN "post" ELSE "check_map")
    /\ shutdown_posts' = shutdown_posts

MonitorPosts ==
    /\ mon = "post"
    /\ MonitorStep(after_shutdown_post)
    /\ shutdown_posts' = shutdown_posts + 1

Monitor == MonitorReadsMap \/ MonitorReadsReduce \/ MonitorPosts

\* ---------------------------------------------------------------- the job's specification
\* the driver is constructed over a directory of up to MaxFiles .txt files
\* and the workers are started
JobInit ==
    /\ pc = "init"
    /\ \E l \in 0..MaxFiles : \E cs \in [1..l -> JobContents] :
          /\ input_dir = [i \in 1..l |-> [name |-> i, txt |-> TRUE, size |-> Len(cs[i])]]
          /\ file_words = cs
    /\ N \in 1..MaxFiles
    /\ M \in 1..MaxM
    /\ file_groups = <<>>
    /\ map_tasks = <<>>
    /\ reduce_tasks = <<>>
    /\ completed_map_tasks = {}
    /\ completed_reduce_tasks = {}
    /\ handler = [c \in Clients |-> "idle"]
    /\ last_call = Call("init", None, 0, FALSE)
    /\ dispatched = <<>>
    /\ done_answered = FALSE
    /\ NoJob

JobNext ==
    \/ CreateTasks
    \/ \E w \in Clients : WorkerFetch(w)
    \/ \E w \in Clients : WorkerAnswer(w)
    \/ \E w \in Clients : WorkerWake(w)
    \/ \E w \in Clients : WorkerProcess(w)
    \/ \E w \in Clients : WorkerBodyFails(w)
    \/ \E w \in Clients : WorkerReport(w)
    \/ \E w \in Clients : WorkerRequestFails(w)
    \/ \E w \in Clients : WorkerGivesUp(w)
    \/ MonitorReadsMap
    \/ MonitorReadsReduce
    \/ MonitorPosts

\* the monitor thread spins in its loop and is scheduled again and again
SpecJob == JobInit /\ [][JobNext]_vars /\ WF_vars(Monitor)

\* ================================================================ claims on the job
\* occurrences of word in the input files
RECURSIVE Occurrences(_, _, _)
Occurrences(names, words, word) ==
    IF names = {} THEN 0
    ELSE LET f == CHOOSE x \in names : TRUE
         IN Len(SelectSeq(words[f], LAMBDA x : x = word))
               + Occurrences(names \ {f}, words, word)

TotalCount(word) == Occurrences(DOMAIN file_words, file_words, word)

InputTokens == {word \in {WordList[i] : i \in 1..Len(WordList)} : TotalCount(word) > 0}

\* the words of the lines of out-<r>
OutputWords(r) == {output[r][i][1] : i \in 1..Len(output[r])}

\* C14: when the job has completed, every token of the input files is
\* recorded by out-<ord(first character) mod M> with its total number of
\* occurrences over all input files, and by no other output file.
C14_WordCount ==
    (pc = "serving" /\ IsAllCompleted) =>
        \A t \in InputTokens :
            /\ bucket_id(t, M) \in DOMAIN output
            /\ \E i \in 1..Len(output[bucket_id(t, M)]) :
                  output[bucket_id(t, M)][i] = <<t, TotalCount(t)>>
            /\ \A r \in DOMAIN output \ {bucket_id(t, M)} : t \notin OutputWords(r)

\* a completed job of two map tasks whose files hold the same word: the
\* count adds up what two map tasks wrote
C14_Witness ==
    /\ pc = "serving" /\ IsAllCompleted
    /\ N = 2 /\ Len(dispatched) = N + M
    /\ \E t \in InputTokens :
          /\ TotalCount(t) = 2
          /\ \E i \in 1..Len(output[bucket_id(t, M)]) :
                output[bucket_id(t, M)][i] = <<t, 2>>

\* C15: a reduce task taken up after all map tasks have completed writes
\* out-<r> and goes on to report {reduce, r}, whatever the intermediate
\* directory holds, a directory with no file for bucket r included.
C15_ReduceAlwaysWrites ==
    [][\A w \in Clients :
          (/\ wpc[w] = "exec" /\ wtask[w].type = "reduce"
           /\ wpc'[w] # "exec" /\ last_call'.op = "process_task")
             => /\ wpc'[w] = "report"
                /\ wtask'[w] = wtask[w]
                /\ wtask[w].task_id \in DOMAIN output']_vars

\* the workers that are inside a task body
Executing == {w \in Clients : wpc[w] = "exec"}

\* C16: no two workers are inside the body of the same task, so the files
\* mr-<id>-* have the one writer that holds map task <id> and out-<r> the one
\* that holds reduce task r; and while a reduce task is inside its body, which
\* lists and reads the intermediate directory, no map task is inside its
\* body or still to be handed out.
C16_NoContention ==
    /\ \A v, w \in Executing :
          v # w => <<wtask[v].type, wtask[v].task_id>> # <<wtask[w].type, wtask[w].task_id>>
    /\ (\E w \in Executing : wtask[w].type = "reduce")
          => /\ map_tasks = <<>>
             /\ \A v \in Executing : wtask[v].type = "reduce"

\* two workers are inside the bodies of the two reduce tasks, each bucket
\* with an intermediate file
C16_Witness ==
    /\ Executing = Clients
    /\ {wtask[w] : w \in Clients}
          = {[type |-> "reduce", task_id |-> 0], [type |-> "reduce", task_id |-> 1]}
    /\ DOMAIN get_reduce_task_filenames(intermediate) = {0, 1}

\* the request a step sends to the driver
Sends(w, op) == requester' = w /\ last_call'.op = op

\* C17: a worker reports only from the position after the body of the task
\* it holds, the report carries that task's kind and id, with it the worker
\* lets go of the task and is back at its fetch, which it does not reach
\* from there without the report; it fetches only holding no
\* task, takes as its task only what its own fetch returned, and reaches the
\* report position only by running the body of the task it holds.
C17_WorkerStepOrder ==
    [][\A w \in Clients :
          /\ Sends(w, "task_completed")
                => /\ wpc[w] = "report"
                   /\ last_call'.task.type = wtask[w].type
                   /\ last_call'.task.task_id = wtask[w].task_id
                   /\ wpc'[w] = "fetch" /\ wtask'[w] = None
          /\ (wpc[w] = "report" /\ wpc'[w] = "fetch")
                => Sends(w, "task_completed")
          /\ Sends(w, "get_task")
                => wpc[w] = "fetch" /\ wtask[w] = None
          /\ (wtask'[w] # wtask[w] /\ wtask'[w] # None)
                => /\ wtask[w] = None
                   /\ Sends(w, "get_task") /\ TaskReturned /\ Returned = wtask'[w]
                   /\ wpc'[w] = "exec"
          /\ (wpc'[w] = "report" /\ wpc[w] # "report")
                => /\ wpc[w] = "exec" /\ wtask'[w] = wtask[w]
                   /\ last_call' = Call("process_task", wtask[w], 0, FALSE)]_vars

\* a worker has reported the reduce task it was handed and is back at its
\* fetch holding nothing
C17_Witness ==
    /\ \E w \in Clients : requester = w /\ wpc[w] = "fetch" /\ wtask[w] = None
    /\ last_call.op = "task_completed" /\ last_call.task.type = "reduce"
    /\ last_call.task.task_id \in DOMAIN output

\* C18: a worker answered 202 sleeps and goes back to its fetch, as often as
\* it is answered 202: nothing but the fetch follows the sleep.  A worker
\* answered anything else, and a worker whose request did not reach the
\* driver, sleeps at most once and ends: it sends no request after that and
\* stays ended.
C18_ExitAndRetry ==
    [][\A w \in Clients :
          /\ (wpc[w] = "answer" /\ wpc'[w] # "answer")
                => \/ last_call'.status = 202 /\ wpc'[w] = "wait"
                   \/ last_call'.status # 202 /\ wpc'[w] \in {"failed", "exited"}
          /\ wpc[w] = "wait" => wpc'[w] \in {"wait", "fetch"}
          /\ Sends(w, "request_failed") => wpc'[w] = "failed"
          /\ wpc[w] = "failed" => wpc'[w] \in {"failed", "exited"}
          /\ wpc[w] = "exited" => wpc'[w] = "exited"
          /\ wpc[w] \in {"failed", "exited"} => requester' # w]_vars

\* one worker's completion report has not reached the driver and the worker
\* is in the sleep before it ends, the other sleeps on a 202
C18_Witness ==
    \E v, w \in Clients :
        /\ wpc[w] = "failed" /\ requester = w
        /\ last_call.op = "request_failed" /\ last_call.task.type = "map"
        /\ wpc[v] = "wait"

\* ================================================================ the monitor thread
\* the driver's endpoints, open to any client as under Spec, with the
\* monitor thread running beside them
NextWatch ==
    \/ Next
    \/ MonitorReadsMap
    \/ MonitorReadsReduce
    \/ MonitorPosts

SpecWatch == Init /\ [][NextWatch]_vars /\ WF_vars(Monitor)

\* C19: the monitor posts /shutdown at most once, and the evaluation of
\* is_all_completed() that makes it post ends in a state where every map and
\* every reduce task is complete.
C19_Watchdog ==
    [][/\ shutdown_posts' <= 1
       /\ (mon = "check_reduce" /\ mon' = "post") => IsAllCompleted]_vars

\* ================================================================ a lost map task
\* the workers that have ended holding a map task they did not report
LostHolders == {w \in Clients : wpc[w] = "exited" /\ wtask[w].type = "map"}

\* how often a task has been handed out
TimesDispatched(task) == Len(SelectSeq(dispatched, LAMBDA d : d = task))

\* C20: once a worker has ended holding map task j unreported, and from then
\* on, j is not in completed_map_tasks, j is in no queue and has been handed
\* out that once, no reduce task has been handed out and is_all_completed()
\* is false.
C20_StallOnLostMap ==
    \A w \in LostHolders :
        /\ wtask[w].task_id \notin completed_map_tasks
        /\ \A i \in 1..Len(map_tasks) : map_tasks[i].task_id # wtask[w].task_id
        /\ TimesDispatched(wtask[w]) = 1
        /\ ReducesOf(dispatched) = <<>>
        /\ ~IsAllCompleted

\* a worker has ended inside the body of one of two map tasks; the other
\* map task is reported and the other worker sleeps on a 202
C20_Witness ==
    /\ N = 2 /\ Cardinality(completed_map_tasks) = 1 /\ map_tasks = <<>>
    /\ \E w \in LostHolders : wtask[w].task_id \notin completed_map_tasks
    /\ \E v \in Clients : wpc[v] = "wait"

\* ================================================================ /shutdown
\* jsonify({'status': 'shutdown initiated'})
ShutdownInitiated == "shutdown initiated"

\* POST /shutdown, from the monitor thread or any client.  func is
\* request.environ.get('werkzeug.server.shutdown'): a function with a
\* werkzeug that still passes one, None with one that does not.  Called, it
\* stops the server; the response is the same either way.
Shutdown(func) ==
    /\ pc = "serving"
    /\ ~server_stopped
    /\ server_stopped' = func
    /\ shutdown_response' = ShutdownInitiated
    /\ last_call' = Call("shutdown", None, 200, FALSE)
    /\ UNCHANGED <<pc, input_dir, N, M, file_groups, map_tasks, reduce_tasks,
                   completed_map_tasks, completed_reduce_tasks, handler,
                   dispatched, done_answered,
                   file_words, wpc, wtask, intermediate, output, mon,
                   shutdown_posts, requester>>

NextShutdown ==
    \/ CreateTasks
    \/ \E func \in BOOLEAN : Shutdown(func)

SpecShutdown == InitCreate /\ [][NextShutdown]_vars

\* C21: /shutdown answers 'shutdown initiated' only when it has stopped the
\* server: with no shutdown function in the request environment its response
\* is another one.
C21_ShutdownReportsNoHook ==
    [][(last_call'.op = "shutdown" /\ shutdown_response' = ShutdownInitiated)
          => server_stopped']_vars

\* ================================================================ dispatch counts
\* the tasks create_tasks made
CreatedTasks ==
    LET maps == MapTasksOf(file_groups, TxtNames(input_dir))
        reduces == ReduceTasksOf(M)
    IN {maps[i] : i \in 1..Len(maps)} \cup {reduces[i] : i \in 1..Len(reduces)}

\* entries of a sequence of tasks with the kind and id of task
CountOf(tasks, task) ==
    Len(SelectSeq(tasks, LAMBDA t : t.type = task.type /\ t.task_id = task.task_id))

\* C22: whatever the interleaving of the /get_task calls and reports, each
\* task create_tasks made is either in its queue, once, and was never
\* returned, or is in no queue and was returned by exactly one get_next_task
\* call; nothing else is queued or returned.
C22_AtMostOnceDispatch ==
    pc = "serving" =>
        /\ \A task \in CreatedTasks :
              CountOf(map_tasks \o reduce_tasks, task) + CountOf(dispatched, task) = 1
        /\ \A i \in 1..Len(dispatched) : dispatched[i] \in CreatedTasks
        /\ \A i \in 1..Len(map_tasks \o reduce_tasks) :
              (map_tasks \o reduce_tasks)[i] \in CreatedTasks

\* every task of a job of two map and two reduce tasks has been returned,
\* and another /get_task call is between its get_next_task and its answer
C22_Witness ==
    /\ pc = "serving" /\ N = 2 /\ M = 2
    /\ map_tasks = <<>> /\ reduce_tasks = <<>>
    /\ \A task \in CreatedTasks : CountOf(dispatched, task) = 1
    /\ Cardinality(CreatedTasks) = 4
    /\ \E c \in Clients : handler[c] = "none"

\* ================================================================ greedy LPT
\* the indexes 0..n-1 by descending weight, equal weights by ascending index
LptOrder(nums) ==
    CHOOSE s \in [1..Len(nums) -> 0..(Len(nums) - 1)] :
        \A p, q \in 1..Len(nums) :
            p < q => \/ nums[s[p] + 1] > nums[s[q] + 1]
                     \/ nums[s[p] + 1] = nums[s[q] + 1] /\ s[p] < s[q]

RECURSIVE SeqSum(_)
SeqSum(xs) == IF xs = <<>> THEN 0 ELSE Head(xs) + SeqSum(Tail(xs))

\* the groups (1..k) of the first p items of the order s: each item goes to
\* the group of smallest running sum, the lowest such group on ties
RECURSIVE LptAssign(_, _, _, _)
LptAssign(s, nums, k, p) ==
    IF p = 0 THEN <<>>
    ELSE LET prev == LptAssign(s, nums, k, p - 1)
             load(g) == SeqSum([q \in 1..(p - 1) |->
                                   IF prev[q] = g THEN nums[s[q] + 1] ELSE 0])
             best == CHOOSE g \in 1..k :
                         \A h \in 1..k : \/ load(g) < load(h)
                                         \/ load(g) = load(h) /\ g <= h
         IN Append(prev, best)

\* the greedy LPT grouping of the indexes of nums into k groups
Lpt(nums, k) ==
    LET s == LptOrder(nums)
        a == LptAssign(s, nums, k, Len(nums))
    IN [g \in 1..k |->
           LET at == SelectSeq([p \in 1..Len(nums) |-> p], LAMBDA p : a[p] = g)
           IN [i \in 1..Len(at) |-> s[at[i]]]]

\* C23: for the sizes of the .txt files of any directory, the groups
\* create_tasks got from group_number_indexes, and the groups
\* group_number_indexes gives for every k >= 1, are the greedy LPT grouping.
C23_ExactLpt ==
    pc = "serving" =>
        /\ N >= 1 => file_groups = Lpt(TxtSizes(input_dir), N)
        /\ \A k \in 1..MaxFilesCreate :
              group_number_indexes(TxtSizes(input_dir), k) = Lpt(TxtSizes(input_dir), k)

\* three files whose sizes are ordered as 10, 20, 5 and three groups: three
\* singleton groups, the largest file in group 0
C23_Witness ==
    /\ pc = "serving" /\ N = 3
    /\ TxtSizes(input_dir) = <<1, 2, 0>>
    /\ file_groups = <<<<1>>, <<0>>, <<2>>>>

\* ================================================================ the job to its end
\* the workers whose process is never killed
NeverCrashes == {1}

\* a worker's process is killed from outside, wherever it is; it ends
\* holding what it holds
WorkerCrashes(w) ==
    /\ pc = "serving"
    /\ w \notin NeverCrashes
    /\ wpc[w] \in {"fetch", "wait", "exec", "report"}
    /\ WorkerSet(w, "exited", wtask[w])
    /\ last_call' = Call("crash", wtask[w], 0, FALSE)
    /\ requester' = 0
    /\ UNCHANGED <<pc, input_dir, N, M, file_groups, map_tasks, reduce_tasks,
                   completed_map_tasks, completed_reduce_tasks, handler,
                   dispatched, done_answered,
                   file_words, intermediate, output, mon, shutdown_posts,
                   server_stopped, shutdown_response>>

\* what run_worker does by itself when every request reaches the driver and
\* no task body is interrupted
WorkerRuns(w) ==
    \/ WorkerFetch(w)
    \/ WorkerAnswer(w)
    \/ WorkerWake(w)
    \/ WorkerProcess(w)
    \/ WorkerReport(w)
    \/ WorkerGivesUp(w)

\* a directory of at least one .txt file, every file with a word in it
LiveInit ==
    /\ JobInit
    /\ Len(input_dir) >= 1
    /\ \A i \in 1..Len(input_dir) : input_dir[i].size > 0

LiveNext ==
    \/ CreateTasks
    \/ \E w \in Clients : WorkerRuns(w)
    \/ \E w \in Clients : WorkerCrashes(w)
    \/ Monitor

\* the driver starts, every worker process that is not killed keeps running,
\* and so does the monitor thread
SpecLive ==
    /\ LiveInit /\ [][LiveNext]_vars
    /\ WF_vars(CreateTasks)
    /\ \A w \in Clients : WF_vars(WorkerRuns(w))
    /\ WF_vars(Monitor)

\* C24: with at least one input file, every file non-empty, M >= 1, no task
\* body interrupted and a worker that is never killed, eventually every map
\* and reduce task is reported complete, and eventually every worker has
\* ended.
C24_JobLiveness ==
    /\ <>IsAllCompleted
    /\ <>(\A w \in Clients : wpc[w] = "exited")

====
